---- MODULE Spec2Model ----
(***************************************************************************)
(* Model of the chat-transcript parser (the streaming transcript-to-       *)
(* annotation formatter) of github-code-review-bot.                        *)
(*                                                                         *)
(* A string is a sequence of one-character strings.  Fixed literals of the *)
(* source that are only ever concatenated and never measured (ANSI colour  *)
(* codes, emoji markers, markdown templates) are single elements.  A       *)
(* structured input line is "{", a token naming a message of the catalogue *)
(* Messages, "}": JSON.parse of a line is the decoding of that token.      *)
(***************************************************************************)
EXTENDS Integers, Sequences, FiniteSets, TLC

(***************************************************************************)
(* Bounds of the model.                                                    *)
(***************************************************************************)
\* number of input lines a run receives
MaxLines == 3
\* milliseconds enumerated on each side of a boundary of the time stamp
MaxSkew == 2
\* ordinals whose contexts are compared with those of the run
MaxContext == 30
\* body lengths enumerated on each side of a disclosure threshold
Slack == 2
\* length of the exhaustively enumerated short tool-result bodies
MaxShort == 4

(***************************************************************************)
(* String and array primitives of the JavaScript runtime.                  *)
(***************************************************************************)
NL == "\n"

Min(a, b) == IF a < b THEN a ELSE b

Rep(c, n) == [i \in 1..n |-> c]

\* s.slice(0, n), for a string or an array
SliceTo(s, n) == SubSeq(s, 1, Min(n, Len(s)))

\* s.slice(n), for a string or an array
SliceFrom(s, n) == SubSeq(s, n + 1, Len(s))

\* s.split("\n")
RECURSIVE Split(_)
Split(s) ==
    IF \E i \in 1..Len(s) : s[i] = NL
    THEN LET i == CHOOSE k \in 1..Len(s) :
                      s[k] = NL /\ \A j \in 1..(k - 1) : s[j] # NL
         IN  <<SubSeq(s, 1, i - 1)>> \o Split(SubSeq(s, i + 1, Len(s)))
    ELSE <<s>>

\* parts.join(sep)
RECURSIVE Join(_, _)
Join(parts, sep) ==
    IF Len(parts) = 0 THEN <<>>
    ELSE IF Len(parts) = 1 THEN parts[1]
    ELSE parts[1] \o sep \o Join(Tail(parts), sep)

IsSpace(c) == c = " " \/ c = "\t"

\* s.trim()
RECURSIVE TrimStart(_)
TrimStart(s) ==
    IF Len(s) > 0 /\ IsSpace(s[1]) THEN TrimStart(Tail(s)) ELSE s

RECURSIVE TrimEnd(_)
TrimEnd(s) ==
    IF Len(s) > 0 /\ IsSpace(s[Len(s)]) THEN TrimEnd(SubSeq(s, 1, Len(s) - 1)) ELSE s

Trim(s) == TrimEnd(TrimStart(s))

StartsWithBrace(s) == Len(s) > 0 /\ s[1] = "{"

(***************************************************************************)
(* JSON values carried by content items (tool input, structured result).   *)
(* An object is a sequence of <<key, value>> pairs of strings.             *)
(***************************************************************************)
JUndef == [t |-> "undefined", s |-> <<>>, kv |-> <<>>]
JStr(s) == [t |-> "string", s |-> s, kv |-> <<>>]
JObj(kv) == [t |-> "object", s |-> <<>>, kv |-> kv]

\* JavaScript truthiness: undefined and "" are falsy, every object is truthy
Truthy(v) == v.t = "object" \/ (v.t = "string" /\ v.s # <<>>)

Quote(s) == <<"\"">> \o s \o <<"\"">>

\* JSON.stringify(v, null, 2)
StringifyPretty(v) ==
    IF v.t = "string" THEN Quote(v.s)
    ELSE IF v.kv = <<>> THEN <<"{", "}">>
    ELSE <<"{", NL>>
         \o Join([i \in 1..Len(v.kv) |->
                    <<" ", " ">> \o Quote(v.kv[i][1]) \o <<":", " ">> \o Quote(v.kv[i][2])],
                 <<",", NL>>)
         \o <<NL, "}">>

\* JSON.stringify(v)
StringifyCompact(v) ==
    IF v.t = "string" THEN Quote(v.s)
    ELSE <<"{">>
         \o Join([i \in 1..Len(v.kv) |->
                    Quote(v.kv[i][1]) \o <<":">> \o Quote(v.kv[i][2])],
                 <<",">>)
         \o <<"}">>

\* the JSON texts a tool-result text field is tried against
JSONTexts ==
    { JObj(<<>>), JObj(<<<<<<"k">>, <<"v">>>>>>), JStr(<<"v">>) }

\* JSON.parse(s) succeeds
CanParseJSON(s) == \E v \in JSONTexts : StringifyCompact(v) = s

\* JSON.parse(s)
ParseJSON(s) == CHOOSE v \in JSONTexts : StringifyCompact(v) = s

(***************************************************************************)
(* Literals of the renderers.                                              *)
(***************************************************************************)
\* a string literal of the source, as a string of the model
Chars(s) == [i \in 1..Len(s) |-> SubSeq(s, i, i)]

UnknownMessageType == Chars("Unknown message type")
SystemMessage == Chars("System message")
TypeSystem == Chars("system")
TypeAssistant == Chars("assistant")
TypeUser == Chars("user")
SpeakerSystem == Chars("SYSTEM")
SpeakerAssistant == Chars("ASSISTANT")
SpeakerUser == Chars("USER")
Ellipsis == Chars("...")
EmptyObjectText == Chars("{}")

UsingTool == "<Using tool: >"
With == "< with >"
ToolErrorMark == "<Tool error:>"
ToolResultMark == "<Tool result:>"
ToolResultReceived == "<Tool result received>"
DetailsInputOpen == "<details><summary>Show more input...</summary>"
DetailsResultOpen == "<details><summary>Show more...</summary>"
DetailsClose == "</details>"
ColorGreen == "<green>"
ColorRed == "<red>"
ColorMagenta == "<magenta>"
ColorReset == "<reset>"

MaxPreviewInput == 300
MaxPreviewResult == 400

ContextPrefix == Chars("chat-message-")
DecimalDigits == Chars("0123456789")

\* String(n), for a natural number n
RECURSIVE ToStr(_)
ToStr(n) ==
    IF n < 10 THEN <<DecimalDigits[n + 1]>>
    ELSE ToStr(n \div 10) \o <<DecimalDigits[(n % 10) + 1]>>

LowerCase == Chars("abcdefghijklmnopqrstuvwxyz")
UpperCase == Chars("ABCDEFGHIJKLMNOPQRSTUVWXYZ")

\* s.toUpperCase()
ToUpperCase(s) ==
    [i \in 1..Len(s) |->
        IF \E k \in 1..Len(LowerCase) : LowerCase[k] = s[i]
        THEN UpperCase[CHOOSE k \in 1..Len(LowerCase) : LowerCase[k] = s[i]]
        ELSE s[i]]

\* the concatenation of an array of arrays (contentParts after the loop)
RECURSIVE Concat(_)
Concat(ss) == IF Len(ss) = 0 THEN <<>> ELSE Head(ss) \o Concat(Tail(ss))

(***************************************************************************)
(* Progressive disclosure of the annotation renderer.                      *)
(***************************************************************************)
\* needsDisclosure
NeedsDisclosure(text, maxPreviewLength) ==
    Len(Split(text)) > 2 \/ Len(text) > maxPreviewLength

\* faulty variant of SplitPreview: the preview of a long text is its first line
SplitPreviewOneLine(text, maxPreviewLength) ==
    LET lines == Split(text)
    IN  IF Len(lines) > 2
        THEN [preview |-> Join(SliceTo(lines, 1), <<NL>>),
              remaining |-> Join(SliceFrom(lines, 2), <<NL>>)]
        ELSE IF Len(text) > maxPreviewLength
        THEN [preview |-> SliceTo(text, maxPreviewLength) \o Ellipsis,
              remaining |-> SliceFrom(text, maxPreviewLength)]
        ELSE [preview |-> text, remaining |-> <<>>]

\* faulty variant of SplitPreview: no ellipsis after a truncated single line
SplitPreviewNoEllipsis(text, maxPreviewLength) ==
    LET lines == Split(text)
    IN  IF Len(lines) > 2
        THEN [preview |-> Join(SliceTo(lines, 2), <<NL>>),
              remaining |-> Join(SliceFrom(lines, 2), <<NL>>)]
        ELSE [preview |-> SliceTo(text, maxPreviewLength),
              remaining |-> SliceFrom(text, maxPreviewLength)]

\* preview and remaining of a text that needs disclosure
SplitPreview(text, maxPreviewLength) ==
    LET lines == Split(text)
    IN  IF Len(lines) > 2
        THEN [preview |-> Join(SliceTo(lines, 2), <<NL>>),
              remaining |-> Join(SliceFrom(lines, 2), <<NL>>)]
        ELSE IF Len(text) > maxPreviewLength
        THEN [preview |-> SliceTo(text, maxPreviewLength) \o Ellipsis,
              remaining |-> SliceFrom(text, maxPreviewLength)]
        ELSE [preview |-> text, remaining |-> <<>>]

\* toolInput of a tool_use item, annotation renderer
ToolInputPretty(item) ==
    IF Truthy(item.input) THEN StringifyPretty(item.input) ELSE <<>>

\* toolDesc of a tool_use item, annotation renderer
ToolUseDesc(item) ==
    LET toolInput == ToolInputPretty(item)
        toolDesc == <<UsingTool>> \o item.name
    IN  IF toolInput # <<>> /\ toolInput # EmptyObjectText
        THEN IF ~NeedsDisclosure(toolInput, MaxPreviewInput)
             THEN toolDesc \o <<With>> \o toolInput
             ELSE LET d == SplitPreview(toolInput, MaxPreviewInput)
                  IN  IF d.remaining # <<>>
                      THEN toolDesc \o <<With>> \o d.preview \o <<DetailsInputOpen>>
                           \o d.remaining \o <<DetailsClose>>
                      ELSE toolDesc \o <<With>> \o d.preview
        ELSE toolDesc

\* a text field that holds a JSON object instead of a string; string
\* concatenation renders it as this one token, and it has no split method
ObjectValue == <<"[object Object]">>

\* resultContent of a tool_result item (both renderers)
ResultContent(item) ==
    IF item.text # <<>>
    THEN IF CanParseJSON(item.text)
         THEN StringifyPretty(ParseJSON(item.text))
         ELSE item.text
    ELSE IF Truthy(item.content)
    THEN StringifyPretty(item.content)
    ELSE <<>>

\* errorIndicator of a tool_result item, annotation renderer
ErrorIndicator(item) == IF item.is_error THEN ToolErrorMark ELSE ToolResultMark

\* the part pushed for a tool_result item, annotation renderer
ToolResultPart(item) ==
    LET resultContent == ResultContent(item)
        errorIndicator == ErrorIndicator(item)
    IN  IF resultContent # <<>>
        THEN IF ~NeedsDisclosure(resultContent, MaxPreviewResult)
             THEN <<errorIndicator, NL>> \o resultContent
             ELSE LET d == SplitPreview(resultContent, MaxPreviewResult)
                  IN  IF d.remaining # <<>>
                      THEN <<errorIndicator, NL>> \o d.preview \o <<DetailsResultOpen>>
                           \o d.remaining \o <<DetailsClose>>
                      ELSE <<errorIndicator, NL>> \o d.preview
        ELSE <<ToolResultReceived>>

(***************************************************************************)
(* Messages and content items.  A message is the decoded form of a         *)
(* structured line; hasType, hasMessage and hasContent say which of        *)
(* msg.type, msg.message and msg.message.content are present.              *)
(***************************************************************************)
TextItem(text) ==
    [type |-> "text", text |-> text, name |-> <<>>, input |-> JUndef,
     content |-> JUndef, is_error |-> FALSE]

ToolUseItem(name, input) ==
    [type |-> "tool_use", text |-> <<>>, name |-> name, input |-> input,
     content |-> JUndef, is_error |-> FALSE]

ToolResultItem(text, content, is_error) ==
    [type |-> "tool_result", text |-> text, name |-> <<>>, input |-> JUndef,
     content |-> content, is_error |-> is_error]

Msg(type, subtype, content) ==
    [hasType |-> TRUE, type |-> Chars(type), subtype |-> subtype,
     session_id |-> Chars("abc123"), model |-> Chars("m1"),
     hasMessage |-> TRUE, hasContent |-> TRUE, content |-> content]

\* the result of a renderer that threw a TypeError
Threw == [threw |-> TRUE, speaker |-> <<>>, content |-> <<>>, hasError |-> FALSE]

Returned(speaker, content, hasError) ==
    [threw |-> FALSE, speaker |-> speaker, content |-> content, hasError |-> hasError]

SessionInitialized(msg) ==
    <<"<Session initialized (ID: >">> \o msg.session_id \o <<"<, Model: >">>
    \o msg.model \o <<")">>

(***************************************************************************)
(* extractCleanJSONContentWithErrorCheck: the annotation renderer.         *)
(***************************************************************************)
\* what the assistant loop pushes for one content item
AssistantPartClean(item) ==
    IF item.type = "text"
    THEN IF item.text # <<>> THEN <<item.text>> ELSE <<>>
    ELSE IF item.type = "tool_use" THEN <<ToolUseDesc(item)>>
    ELSE <<>>

\* resultContent.split raises a TypeError: resultContent is not a string
SplitThrows(item) ==
    item.type = "tool_result" /\ ResultContent(item) = ObjectValue

\* what the user loop pushes for one content item
UserPartClean(item) ==
    IF item.type = "tool_result" THEN <<ToolResultPart(item)>>
    ELSE IF item.text # <<>> THEN <<item.text>>
    ELSE <<>>

\* faulty variant of UserHasError: only the first content item is examined
UserHasErrorFirstItem(msg) ==
    /\ msg.hasMessage
    /\ Len(msg.content) > 0
    /\ msg.content[1].type = "tool_result" /\ msg.content[1].is_error

\* hasError of the user branch
UserHasError(msg) ==
    /\ msg.hasMessage
    /\ Len(msg.content) > 0
    /\ \E i \in 1..Len(msg.content) :
           msg.content[i].type = "tool_result" /\ msg.content[i].is_error

ExtractCleanJSONContentWithErrorCheck(msg) ==
    IF ~msg.hasType THEN Threw
    ELSE IF msg.type = TypeSystem
    THEN IF msg.subtype = "init"
         THEN Returned(SpeakerSystem, SessionInitialized(msg), FALSE)
         ELSE Returned(SpeakerSystem, SystemMessage, FALSE)
    ELSE IF msg.type = TypeAssistant
    THEN IF msg.hasMessage /\ ~msg.hasContent THEN Threw
         ELSE IF msg.hasMessage /\ Len(msg.content) > 0
         THEN Returned(SpeakerAssistant,
                       Join(Concat([i \in 1..Len(msg.content) |->
                                       AssistantPartClean(msg.content[i])]),
                            <<NL, NL>>),
                       FALSE)
         ELSE Returned(SpeakerAssistant, <<>>, FALSE)
    ELSE IF msg.type = TypeUser
    THEN IF msg.hasMessage /\ ~msg.hasContent THEN Threw
         ELSE IF msg.hasMessage /\ Len(msg.content) > 0
         THEN IF \E i \in 1..Len(msg.content) : SplitThrows(msg.content[i])
              THEN Threw
              ELSE Returned(SpeakerUser,
                            Join(Concat([i \in 1..Len(msg.content) |->
                                            UserPartClean(msg.content[i])]),
                                 <<NL, NL>>),
                            UserHasError(msg))
         ELSE Returned(SpeakerUser, <<>>, FALSE)
    ELSE Returned(ToUpperCase(msg.type), UnknownMessageType, FALSE)

(***************************************************************************)
(* formatJSONMessage: the console renderer.                                *)
(***************************************************************************)
AssistantPartConsole(item) ==
    IF item.type = "text"
    THEN IF item.text # <<>> THEN <<item.text>> ELSE <<>>
    ELSE IF item.type = "tool_use"
    THEN LET toolInput == IF Truthy(item.input) THEN StringifyCompact(item.input)
                          ELSE <<>>
             withClause == IF toolInput # <<>> /\ toolInput # EmptyObjectText
                           THEN <<With>> \o toolInput ELSE <<>>
         IN  << <<ColorGreen, UsingTool>> \o item.name \o withClause \o <<ColorReset>> >>
    ELSE <<>>

UserPartConsole(item) ==
    IF item.type = "tool_result"
    THEN LET resultContent == ResultContent(item)
         IN  IF resultContent # <<>>
             THEN << (IF item.is_error
                      THEN <<ColorRed, ToolErrorMark, ColorReset>>
                      ELSE <<ColorMagenta, ToolResultMark, ColorReset>>)
                     \o <<NL>> \o resultContent >>
             ELSE << <<ColorMagenta, ToolResultReceived, ColorReset>> >>
    ELSE IF item.text # <<>> THEN <<item.text>>
    ELSE <<>>

FormatJSONMessage(msg) ==
    IF ~msg.hasType THEN Threw
    ELSE IF msg.type = TypeSystem
    THEN IF msg.subtype = "init"
         THEN Returned(SpeakerSystem, SessionInitialized(msg), FALSE)
         ELSE Returned(SpeakerSystem, SystemMessage, FALSE)
    ELSE IF msg.type = TypeAssistant
    THEN IF msg.hasMessage /\ ~msg.hasContent THEN Threw
         ELSE IF msg.hasMessage /\ Len(msg.content) > 0
         THEN Returned(SpeakerAssistant,
                       Join(Concat([i \in 1..Len(msg.content) |->
                                       AssistantPartConsole(msg.content[i])]),
                            <<NL>>),
                       FALSE)
         ELSE Returned(SpeakerAssistant, <<>>, FALSE)
    ELSE IF msg.type = TypeUser
    THEN IF msg.hasMessage /\ ~msg.hasContent THEN Threw
         ELSE IF msg.hasMessage /\ Len(msg.content) > 0
         THEN Returned(SpeakerUser,
                       Join(Concat([i \in 1..Len(msg.content) |->
                                       UserPartConsole(msg.content[i])]),
                            <<NL>>),
                       FALSE)
         ELSE Returned(SpeakerUser, <<>>, FALSE)
    ELSE Returned(ToUpperCase(msg.type), UnknownMessageType, FALSE)

(***************************************************************************)
(* Input lines.                                                            *)
(***************************************************************************)
\* the messages a structured line of the model decodes to
Messages ==
    [sysInit |-> Msg("system", "init", <<>>),
     asstText |-> Msg("assistant", "", <<TextItem(Chars("hi"))>>),
     asstMarker |-> Msg("assistant", "", <<TextItem(UnknownMessageType)>>),
     asstEmpty |-> Msg("assistant", "", <<>>),
     userError |-> Msg("user", "",
                       <<ToolResultItem(Chars("boom"), JUndef, TRUE)>>),
     userOk |-> Msg("user", "", <<ToolResultItem(Chars("ok"), JUndef, FALSE)>>),
     result |-> Msg("result", "", <<>>),
     noType |-> [Msg("", "", <<>>) EXCEPT !.hasType = FALSE],
     asstNoContent |-> [Msg("assistant", "", <<>>) EXCEPT !.hasContent = FALSE],
     userTwo |-> Msg("user", "",
                     <<ToolResultItem(Chars("ok"), JUndef, FALSE),
                       ToolResultItem(Chars("boom"), JUndef, TRUE)>>),
     userText |-> Msg("user", "", <<TextItem(Chars("hi"))>>),
     asstToolError |-> Msg("assistant", "",
                           <<TextItem(Chars("hi")),
                             ToolResultItem(Chars("boom"), JUndef, TRUE)>>),
     userObjectText |-> Msg("user", "",
                            <<ToolResultItem(ObjectValue, JUndef, TRUE)>>)]

\* the structured line that decodes to message t
LineOf(t) == <<"{", t, "}">>

\* the kinds of transcript a run can be fed: plain text, system and user (tool
\* result) traffic with blank lines in between; assistant traffic and events of
\* another type; lines that fall back to plain text; tool results and other
\* items under either role; tool results whose text is not a string
Transcripts ==
    { { <<>>, <<" ">>, <<" ", "h", "i", " ">>, LineOf("sysInit"), LineOf("userError"),
        LineOf("userOk") },
      { <<" ">>, LineOf("asstText"), LineOf("asstMarker"), LineOf("asstEmpty"),
        LineOf("result") },
      { <<"{", "x">>, LineOf("noType"), LineOf("asstNoContent"), <<" ", "h", "i", " ">> },
      { LineOf("userTwo"), LineOf("userText"), LineOf("asstToolError"), LineOf("userOk") },
      { LineOf("userObjectText"), LineOf("userOk"), <<" ", "h", "i", " ">> } }

\* the raw lines an input source can deliver
InputLines == UNION Transcripts

\* JSON.parse(line) succeeds
CanDecode(line) ==
    Len(line) = 3 /\ line[1] = "{" /\ line[3] = "}" /\ line[2] \in DOMAIN Messages

\* JSON.parse(line)
Decode(line) == Messages[line[2]]

(***************************************************************************)
(* parseLine, printSingleEntry, createBuildkiteAnnotation.                 *)
(***************************************************************************)
\* faulty variant of IsBlank: the line is compared before it is trimmed
IsBlankUntrimmed(line) == line = <<>>

\* the line consumes no ordinal
IsBlank(line) == Trim(line) = <<>>

\* faulty variant of PlainTextEntry: the entry is flagged as structured
PlainTextEntryStructured(content, n) ==
    [null |-> FALSE, lineNumber |-> n + 1, rawLine |-> content,
     speaker |-> SpeakerSystem, content |-> content, isJSON |-> TRUE]

\* the entry of a line treated as plain text, staticLineNum = n before the line
PlainTextEntry(content, n) ==
    [null |-> FALSE, lineNumber |-> n + 1, rawLine |-> content,
     speaker |-> SpeakerSystem, content |-> content, isJSON |-> FALSE]

\* parseLine(line) with staticLineNum = n: the entry, null for a blank line
ParseLine(line, n) ==
    LET content == Trim(line)
        plain == PlainTextEntry(content, n)
    IN  IF IsBlank(line)
        THEN [null |-> TRUE, lineNumber |-> n, rawLine |-> content,
              speaker |-> <<>>, content |-> <<>>, isJSON |-> FALSE]
        ELSE IF StartsWithBrace(content)
        THEN IF CanDecode(content)
             THEN LET r == FormatJSONMessage(Decode(content))
                  IN  IF r.threw
                      THEN [plain EXCEPT !.isJSON = TRUE]
                      ELSE [plain EXCEPT !.isJSON = TRUE, !.speaker = r.speaker,
                                         !.content = r.content]
             ELSE plain
        ELSE plain

\* staticLineNum after parseLine(line)
NextLineNum(line, n) == IF IsBlank(line) THEN n ELSE n + 1

\* faulty variant of Prints: no guard on empty content
PrintsAlways(entry) == TRUE

\* printSingleEntry writes a block for the entry
Prints(entry) == entry.content # <<>>

\* the block printSingleEntry writes
ConsoleBlock(entry) ==
    [ev |-> "console", n |-> entry.lineNumber, speaker |-> entry.speaker,
     lines |-> Split(entry.content), blankAfter |-> entry.isJSON]

\* faulty variant of SkipsAnnotation: nothing is skipped
SkipsNever(content) == FALSE

\* the annotation is skipped as one of an unknown message type
SkipsAnnotation(content) == content = UnknownMessageType

\* faulty variant of StyleFor: error and success exchanged
StyleForSwapped(speaker, hasError) ==
    IF speaker = SpeakerAssistant THEN "info"
    ELSE IF speaker = SpeakerUser THEN (IF hasError THEN "success" ELSE "error")
    ELSE IF speaker = SpeakerSystem THEN "warning"
    ELSE "info"

\* style of the annotation
StyleFor(speaker, hasError) ==
    IF speaker = SpeakerAssistant THEN "info"
    ELSE IF speaker = SpeakerUser THEN (IF hasError THEN "error" ELSE "success")
    ELSE IF speaker = SpeakerSystem THEN "warning"
    ELSE "info"

\* faulty variant of Context: the ordinal is left out
ContextWithoutOrdinal(lineNumber) == ContextPrefix

\* context of the annotation
Context(lineNumber) == ContextPrefix \o ToStr(lineNumber)

\* createBuildkiteAnnotation(rawJSONLine, lineNumber) up to the execSync call:
\* the annotate invocation, emit = FALSE when the function returns before it
CreateBuildkiteAnnotation(rawJSONLine, lineNumber) ==
    LET line == Trim(rawJSONLine)
        none == [ev |-> "annotate", emit |-> FALSE, n |-> lineNumber, style |-> "info",
                 context |-> Context(lineNumber), speaker |-> <<>>,
                 content |-> <<>>, hasError |-> FALSE]
        Call(speaker, content, hasError) ==
            [none EXCEPT !.emit = TRUE, !.style = StyleFor(speaker, hasError),
                         !.speaker = speaker, !.content = content,
                         !.hasError = hasError]
    IN  IF line = <<>> THEN none
        ELSE IF StartsWithBrace(line)
        THEN IF CanDecode(line)
             THEN LET r == ExtractCleanJSONContentWithErrorCheck(Decode(line))
                  IN  IF r.threw THEN Call(SpeakerSystem, line, FALSE)
                      ELSE IF SkipsAnnotation(r.content) THEN none
                      ELSE Call(r.speaker, r.content, r.hasError)
             ELSE Call(SpeakerSystem, line, FALSE)
        ELSE Call(SpeakerSystem, line, FALSE)

(***************************************************************************)
(* The session driver: main after argument validation, with the line,      *)
(* close and error handlers of parseAndStreamOutput and                    *)
(* parseAndStreamOutputWithFile registered.                                *)
(***************************************************************************)
VARIABLES
    pc,             \* "idle": waiting for an event; "annotating": blocked in
                    \* execSync; "exited"; "off": the driver is not running
    outputFile,     \* main's outputFile, "" without -o
    isStreaming,    \* main's isStreaming
    staticLineNum,  \* the ordinal counter
    lines,          \* the raw-line buffer of parseAndStreamOutputWithFile
    source,         \* the lines the input source of this run can deliver
    input,          \* the lines the input source has delivered so far
    ordinals,       \* for each delivered line, the lineNumber of the entry
                    \* parseLine returned for it, 0 when it returned null
    closed,         \* the input source has closed
    trace,          \* console blocks, annotate invocations, their returns and
                    \* warnings, in the order they happened
    inflight,       \* contexts of the annotate invocations that have not returned
    file,           \* the writeFileSync calls made on the output file
    exitCode,       \* exit status of the process, -1 while it runs
    failed,         \* the error the stream parser's promise was rejected with:
                    \* "read", "write", "" when it was not rejected
    args,           \* process.argv.slice(2)
    report,         \* what main has written to the console outside the entries
    hpc,            \* webhook handler: position in its main, "off" when not run
    payload,        \* webhook handler: the buildkite:webhook meta-data value
    env,            \* webhook handler: process.env
    calls,          \* webhook handler: the external commands and API requests
                    \* made so far, in order, each with its outcome
    hExit,          \* webhook handler: exit status, -1 while it runs
    step,           \* agent step: the commands of the uploaded step, none before
                    \* the upload
    prompt,         \* agent step: prompt_content as piped to the agent by
                    \* claude.sh, "" before claude.sh has run
    elapsed,        \* time stamp alone: milliseconds since startTime
    stamp,          \* time stamp alone: what formatRelativeTime returned, ""
                    \* before it has run
    rItem,          \* renderer alone: the content item rendered
    rOut,           \* renderer alone: content returned by the annotation renderer
    rDone           \* renderer alone: the renderer has run

vars == <<pc, outputFile, isStreaming, staticLineNum, lines, source, input, ordinals, closed,
          trace, inflight, file, exitCode, failed, args, report,
          hpc, payload, env, calls, hExit, step, prompt, elapsed, stamp, rItem, rOut,
          rDone>>

\* the state of the time stamp
clockVars == <<elapsed, stamp>>

\* the state of the agent step
agentVars == <<step, prompt>>

\* the state of the webhook handler and of the step it uploads
handlerVars == <<hpc, payload, env, calls, hExit, agentVars>>

\* what no handler of the session driver changes
fixedVars == <<source, args, report, handlerVars, clockVars, rItem, rOut, rDone>>

\* the state of the session driver
driverVars == <<pc, outputFile, isStreaming, staticLineNum, lines, source, input, ordinals,
                closed, trace, inflight, file, exitCode, failed, args, report>>

\* the state of a handler that is not run
HandlerOff ==
    /\ hpc = "off"
    /\ payload = [text |-> "", action |-> "", hasLabel |-> FALSE, label |-> ""]
    /\ env = [TRIGGER_ON_LABEL |-> "", GITHUB_TOKEN |-> "", MODEL_PROVIDER |-> "",
              BUILDKITE_BUILD_URL |-> ""]
    /\ calls = <<>>
    /\ hExit = -1
    /\ step = <<>>
    /\ prompt = <<>>
    /\ elapsed = 0
    /\ stamp = <<>>

OutputFileName == Chars("out")
InputFileName == Chars("in")
DashO == Chars("-o")
Dash == Chars("-")

\* what main writes to the console outside the entries
UsageText == "<Usage: chat-parser ...>"
ErrRequiresFilename == "<Error: -o requires a filename>"
ErrUnexpectedArgument == "<Error: unexpected argument>"
ErrOnlyStreaming == "<Error: -o option can only be used when streaming from stdin>"
Header == "<=== Claude Code Chat Transcript ===>"

Init ==
    /\ pc = "idle"
    /\ \/ isStreaming = TRUE /\ outputFile \in {<<>>, OutputFileName}
       \/ isStreaming = FALSE /\ outputFile = <<>>
    /\ args = (IF isStreaming THEN <<Dash>> ELSE <<InputFileName>>)
              \o (IF outputFile # <<>> THEN <<DashO, outputFile>> ELSE <<>>)
    /\ report = <<Header>>
    /\ staticLineNum = 0
    /\ lines = <<>>
    /\ source \in Transcripts
    /\ input = <<>>
    /\ ordinals = <<>>
    /\ closed = FALSE
    /\ trace = <<>>
    /\ inflight = {}
    /\ file = <<>>
    /\ exitCode = -1
    /\ failed = ""
    /\ HandlerOff
    /\ rItem = TextItem(<<>>)
    /\ rOut = <<>>
    /\ rDone = FALSE

\* faulty variant of HandlerReturned: the annotate command runs asynchronously
HandlerReturnedAsync == pc \in {"idle", "annotating"}

\* the event loop can dispatch the next event: execSync blocks it until the
\* annotate command has returned
HandlerReturned == pc = "idle"

\* the body shared by both line handlers: parseLine, printSingleEntry,
\* createBuildkiteAnnotation up to the start of the annotate command
ProcessLine(line) ==
    LET entry == ParseLine(line, staticLineNum)
        ann == CreateBuildkiteAnnotation(line, entry.lineNumber)
        printed == IF ~entry.null /\ Prints(entry) THEN <<ConsoleBlock(entry)>> ELSE <<>>
        started == IF ~entry.null /\ ann.emit THEN <<ann>> ELSE <<>>
    IN  /\ staticLineNum' = NextLineNum(line, staticLineNum)
        /\ ordinals' = Append(ordinals, IF entry.null THEN 0 ELSE entry.lineNumber)
        /\ trace' = trace \o printed \o started
        /\ inflight' = IF started # <<>> THEN inflight \cup {ann.context} ELSE inflight
        /\ pc' = IF inflight' # {} THEN "annotating" ELSE "idle"

\* rl.on("line") of parseAndStreamOutput
OnLine ==
    /\ HandlerReturned
    /\ outputFile = <<>>
    /\ ~closed
    /\ Len(input) < MaxLines
    /\ \E line \in source :
          /\ input' = Append(input, line)
          /\ ProcessLine(line)
    /\ UNCHANGED <<outputFile, isStreaming, lines, closed, file, exitCode, failed,
                   fixedVars>>

\* faulty variant of Push: the trimmed line is stored
PushTrimmed(buffer, line) == Append(buffer, Trim(line))

\* lines after lines.push(line)
Push(buffer, line) == Append(buffer, line)

\* rl.on("line") of parseAndStreamOutputWithFile
OnLineWithFile ==
    /\ HandlerReturned
    /\ outputFile # <<>>
    /\ ~closed
    /\ Len(input) < MaxLines
    /\ \E line \in source :
          /\ input' = Append(input, line)
          /\ lines' = Push(lines, line)
          /\ ProcessLine(line)
    /\ UNCHANGED <<outputFile, isStreaming, closed, file, exitCode, failed, fixedVars>>

\* the ordinal of the entry whose annotate invocation carries context c
OrdinalOf(c) ==
    LET k == CHOOSE i \in 1..Len(trace) :
                 /\ trace[i].ev = "annotate" /\ trace[i].context = c
                 /\ \A j \in (i + 1)..Len(trace) :
                       ~(trace[j].ev = "annotate" /\ trace[j].context = c)
    IN  trace[k].n

\* execSync returns normally
AnnotateSucceeds ==
    /\ pc = "annotating"
    /\ \E c \in inflight :
          /\ trace' = Append(trace, [ev |-> "returned", n |-> OrdinalOf(c), ok |-> TRUE])
          /\ inflight' = inflight \ {c}
          /\ pc' = IF inflight' = {} THEN "idle" ELSE "annotating"
    /\ UNCHANGED <<outputFile, isStreaming, staticLineNum, lines, input, ordinals,
                   closed, file, exitCode, failed, fixedVars>>

\* faulty variant of CatchAndWarn: the failure of execSync is left uncaught
Propagate(c) ==
    /\ trace' = Append(trace, [ev |-> "returned", n |-> OrdinalOf(c), ok |-> FALSE])
    /\ inflight' = inflight \ {c}
    /\ pc' = "exited"
    /\ exitCode' = 1

\* the catch clause around execSync
CatchAndWarn(c) ==
    /\ trace' = trace \o <<[ev |-> "returned", n |-> OrdinalOf(c), ok |-> FALSE],
                           [ev |-> "warn", n |-> OrdinalOf(c)]>>
    /\ inflight' = inflight \ {c}
    /\ pc' = IF inflight' = {} THEN "idle" ELSE "annotating"
    /\ exitCode' = exitCode

\* execSync throws: non-zero exit of the annotate command, or an I/O error
AnnotateFails ==
    /\ pc = "annotating"
    /\ \E c \in inflight : CatchAndWarn(c)
    /\ UNCHANGED <<outputFile, isStreaming, staticLineNum, lines, input, ordinals,
                   closed, file, failed, fixedVars>>

\* console.error of main's catch clause
FatalError == [ev |-> "error"]

\* faulty variant of MainCatch: the rejection is swallowed and main returns
MainCatchSwallows ==
    /\ trace' = trace
    /\ pc' = "exited"
    /\ exitCode' = 0

\* main's catch clause around the awaited stream parser
MainCatch ==
    /\ trace' = Append(trace, FatalError)
    /\ pc' = "exited"
    /\ exitCode' = 1

\* rl.on("close") of parseAndStreamOutput: resolve, main returns
OnClose ==
    /\ HandlerReturned
    /\ outputFile = <<>>
    /\ closed' = TRUE
    /\ pc' = "exited"
    /\ exitCode' = 0
    /\ trace' = trace
    /\ UNCHANGED <<outputFile, isStreaming, staticLineNum, lines, input, ordinals,
                   inflight, file, failed, fixedVars>>

\* lines.join("\n") + "\n"
FileContent(buffer) == Join(buffer, <<NL>>) \o <<NL>>

\* rl.on("close") of parseAndStreamOutputWithFile, writeFileSync succeeds
OnCloseWithFile ==
    /\ HandlerReturned
    /\ outputFile # <<>>
    /\ closed' = TRUE
    /\ file' = Append(file, [name |-> outputFile, data |-> FileContent(lines),
                              ok |-> TRUE])
    /\ pc' = "exited"
    /\ exitCode' = 0
    /\ UNCHANGED <<outputFile, isStreaming, staticLineNum, lines, input, ordinals,
                   trace, inflight, failed, fixedVars>>

\* rl.on("close") of parseAndStreamOutputWithFile, writeFileSync throws:
\* reject, main's catch exits with 1
OnCloseWriteFails ==
    /\ HandlerReturned
    /\ outputFile # <<>>
    /\ closed' = TRUE
    /\ file' = Append(file, [name |-> outputFile, data |-> FileContent(lines),
                              ok |-> FALSE])
    /\ failed' = "write"
    /\ MainCatch
    /\ UNCHANGED <<outputFile, isStreaming, staticLineNum, lines, input, ordinals,
                   inflight, fixedVars>>

\* rl.on("error"): reject, main's catch exits with 1
OnError ==
    /\ HandlerReturned
    /\ ~closed
    /\ failed' = "read"
    /\ MainCatch
    /\ UNCHANGED <<outputFile, isStreaming, staticLineNum, lines, input, ordinals,
                   closed, inflight, file, fixedVars>>

Next ==
    \/ OnLine
    \/ OnLineWithFile
    \/ AnnotateSucceeds
    \/ AnnotateFails
    \/ OnClose
    \/ OnCloseWithFile
    \/ OnCloseWriteFails
    \/ OnError

Spec == Init /\ [][Next]_vars

(***************************************************************************)
(* main from its first statement: the command line is parsed and validated,*)
(* then the session driver runs.                                           *)
(***************************************************************************)
\* the for loop over args: i is the 1-based index of the argument examined
RECURSIVE ArgLoop(_, _, _, _)
ArgLoop(argv, i, outFile, inputSource) ==
    IF i > Len(argv)
    THEN [exit |-> FALSE, report |-> <<>>, outputFile |-> outFile,
          inputSource |-> inputSource]
    ELSE IF argv[i] = DashO
    THEN IF i + 1 > Len(argv)
         THEN [exit |-> TRUE, report |-> <<ErrRequiresFilename, UsageText>>,
               outputFile |-> outFile, inputSource |-> inputSource]
         ELSE ArgLoop(argv, i + 2, argv[i + 1], inputSource)
    ELSE IF argv[i] = Dash
    THEN ArgLoop(argv, i + 1, outFile, Dash)
    ELSE IF inputSource = <<>>
    THEN ArgLoop(argv, i + 1, outFile, argv[i])
    ELSE [exit |-> TRUE, report |-> <<ErrUnexpectedArgument, UsageText>>,
          outputFile |-> outFile, inputSource |-> inputSource]

\* faulty variant of RejectsOutputFile: the -o option is never validated
RejectsOutputFileNever(outFile, streaming) == FALSE

\* the validation of the -o option
RejectsOutputFile(outFile, streaming) == outFile # <<>> /\ ~streaming

\* main up to the call of the stream parser: what it has written, whether it
\* has exited, and its outputFile and isStreaming
Startup(argv) ==
    LET exits(messages, outFile, streaming) ==
            [exit |-> TRUE, report |-> messages, outputFile |-> outFile,
             isStreaming |-> streaming]
        p == ArgLoop(argv, 1, <<>>, <<>>)
        streaming == p.inputSource = Dash
    IN  IF Len(argv) = 0 THEN exits(<<UsageText>>, <<>>, FALSE)
        ELSE IF p.exit THEN exits(p.report, p.outputFile, FALSE)
        ELSE IF p.inputSource = <<>> THEN exits(<<UsageText>>, p.outputFile, FALSE)
        ELSE IF RejectsOutputFile(p.outputFile, streaming)
        THEN exits(<<ErrOnlyStreaming>>, p.outputFile, streaming)
        ELSE [exit |-> FALSE, report |-> <<Header>>, outputFile |-> p.outputFile,
              isStreaming |-> streaming]

\* the command lines a run is started with
ArgLists ==
    { <<>>,
      <<Dash>>,
      <<InputFileName>>,
      <<Dash, DashO, OutputFileName>>,
      <<DashO, OutputFileName, Dash>>,
      <<InputFileName, DashO, OutputFileName>>,
      <<DashO, OutputFileName, InputFileName>>,
      <<DashO>>,
      <<Dash, DashO>>,
      <<DashO, OutputFileName>>,
      <<InputFileName, Chars("in2")>>,
      <<Dash, InputFileName>> }

InitMain ==
    /\ pc = "start"
    /\ args \in ArgLists
    /\ report = <<>>
    /\ outputFile = <<>>
    /\ isStreaming = FALSE
    /\ staticLineNum = 0
    /\ lines = <<>>
    /\ source \in Transcripts
    /\ input = <<>>
    /\ ordinals = <<>>
    /\ closed = FALSE
    /\ trace = <<>>
    /\ inflight = {}
    /\ file = <<>>
    /\ exitCode = -1
    /\ failed = ""
    /\ HandlerOff
    /\ rItem = TextItem(<<>>)
    /\ rOut = <<>>
    /\ rDone = FALSE

\* main, from the parsing of the command line to the registration of the
\* handlers of the stream parser, or to process.exit(1)
Main ==
    /\ pc = "start"
    /\ LET s == Startup(args)
       IN  /\ report' = s.report
           /\ outputFile' = s.outputFile
           /\ isStreaming' = s.isStreaming
           /\ pc' = IF s.exit THEN "exited" ELSE "idle"
           /\ exitCode' = IF s.exit THEN 1 ELSE exitCode
    /\ UNCHANGED <<staticLineNum, lines, source, input, ordinals, closed, trace,
                   inflight, file, failed, args, handlerVars, clockVars, rItem, rOut,
                   rDone>>

NextMain == Main \/ Next

SpecMain == InitMain /\ [][NextMain]_vars

(***************************************************************************)
(* The annotation renderer on its own: one content item is drawn, wrapped  *)
(* in a message of the role that renders it, and rendered.                 *)
(***************************************************************************)
\* all strings over {x, newline} of length at most MaxShort
ShortBodies == UNION { [1..n -> {"x", NL}] : n \in 0..MaxShort }

\* tool-result text bodies: around the threshold on one and on two lines,
\* short ones of every shape, and texts that are themselves JSON
ResultBodies ==
    { Rep("x", MaxPreviewResult + d) : d \in (0 - Slack)..Slack }
    \cup { <<"x", NL>> \o Rep("x", MaxPreviewResult - 2 + d) : d \in (0 - Slack)..Slack }
    \cup ShortBodies
    \cup { StringifyCompact(v) : v \in JSONTexts }

\* structured tool-result bodies (the content field)
StructuredBodies ==
    { JObj(<<>>), JObj(<< <<Chars("k"), Chars("v")>> >>) }
    \cup { JStr(Rep("x", MaxPreviewResult - 2 + d)) : d \in (0 - Slack)..Slack }

\* tool inputs
ToolInputs ==
    { JUndef, JStr(<<>>), JObj(<<>>), JObj(<< <<Chars("k"), Chars("v")>> >>),
      JObj(<< <<Chars("k"), Chars("v")>>, <<Chars("l"), Chars("w")>> >>) }
    \cup { JStr(Rep("x", MaxPreviewInput - 2 + d)) : d \in (0 - Slack)..Slack }

RenderItems ==
    { ToolResultItem(b, JUndef, e) : b \in ResultBodies, e \in BOOLEAN }
    \cup { ToolResultItem(<<>>, c, FALSE) : c \in StructuredBodies }
    \cup { ToolUseItem(Chars("Bash"), v) : v \in ToolInputs }

InitRender ==
    /\ pc = "off"
    /\ isStreaming = FALSE
    /\ outputFile = <<>>
    /\ staticLineNum = 0
    /\ lines = <<>>
    /\ source = {}
    /\ input = <<>>
    /\ ordinals = <<>>
    /\ closed = FALSE
    /\ trace = <<>>
    /\ inflight = {}
    /\ file = <<>>
    /\ exitCode = -1
    /\ failed = ""
    /\ args = <<>>
    /\ report = <<>>
    /\ HandlerOff
    /\ rItem \in RenderItems
    /\ rOut = <<>>
    /\ rDone = FALSE

\* the assistant branch on a message holding the tool_use item
RenderAssistant ==
    /\ ~rDone
    /\ rItem.type = "tool_use"
    /\ rOut' = ExtractCleanJSONContentWithErrorCheck(Msg("assistant", "", <<rItem>>)).content
    /\ rDone' = TRUE
    /\ UNCHANGED <<driverVars, handlerVars, clockVars, rItem>>

\* the user branch on a message holding the tool_result item
RenderUser ==
    /\ ~rDone
    /\ rItem.type = "tool_result"
    /\ rOut' = ExtractCleanJSONContentWithErrorCheck(Msg("user", "", <<rItem>>)).content
    /\ rDone' = TRUE
    /\ UNCHANGED <<driverVars, handlerVars, clockVars, rItem>>

NextRender == RenderAssistant \/ RenderUser

SpecRender == InitRender /\ [][NextRender]_vars

(***************************************************************************)
(* The webhook handler (scripts/handler.ts): main, one action per external *)
(* command or API request together with the statements that follow it up   *)
(* to the next one.                                                        *)
(***************************************************************************)
\* a webhook payload: the meta-data text, and what JSON.parse makes of it
Payload(action, hasLabel, label) ==
    [text |-> "json", action |-> action, hasLabel |-> hasLabel, label |-> label]

\* the buildkite:webhook values a build can carry: none, a payload without
\* action, another pull-request event, a labeled event with the trigger
\* label, with another label, and one without a label object
Payloads ==
    { [text |-> "", action |-> "", hasLabel |-> FALSE, label |-> ""],
      Payload("", FALSE, ""),
      Payload("opened", FALSE, ""),
      Payload("labeled", TRUE, "buildkite-review"),
      Payload("labeled", TRUE, "wip"),
      Payload("labeled", FALSE, "") }

\* the environments of the handler step
Environments ==
    [TRIGGER_ON_LABEL : {"buildkite-review", "review-me"},
     GITHUB_TOKEN : {"", "ghp"},
     MODEL_PROVIDER : {"anthropic", "openai"},
     BUILDKITE_BUILD_URL : {"", "https://buildkite.com/o/r/builds/7"}]

InitHandler ==
    /\ hpc = "get-payload"
    /\ payload \in Payloads
    /\ env \in Environments
    /\ calls = <<>>
    /\ hExit = -1
    /\ step = <<>>
    /\ prompt = <<>>
    /\ elapsed = 0
    /\ stamp = <<>>
    /\ pc = "off"
    /\ isStreaming = FALSE
    /\ outputFile = <<>>
    /\ staticLineNum = 0
    /\ lines = <<>>
    /\ source = {}
    /\ input = <<>>
    /\ ordinals = <<>>
    /\ closed = FALSE
    /\ trace = <<>>
    /\ inflight = {}
    /\ file = <<>>
    /\ exitCode = -1
    /\ failed = ""
    /\ args = <<>>
    /\ report = <<>>
    /\ rItem = TextItem(<<>>)
    /\ rOut = <<>>
    /\ rDone = FALSE

\* an external command or API request and its outcome
Call(name, ok) == [call |-> name, ok |-> ok, found |-> FALSE]

\* process.exit(status), or the rejection of main caught at the bottom
HandlerExits(status) ==
    /\ hpc' = "exited"
    /\ hExit' = status

\* buildkite-agent meta-data get buildkite:webhook, and the tests of the
\* payload and of its action
GetPayload ==
    /\ hpc = "get-payload"
    /\ \E ok \in BOOLEAN :
          /\ calls' = Append(calls, Call("meta-data get buildkite:webhook", ok))
          /\ IF ~ok THEN HandlerExits(1)
             ELSE IF payload.text = "" THEN HandlerExits(1)
             ELSE IF payload.action = "" THEN HandlerExits(0)
             ELSE IF payload.action # "labeled" THEN HandlerExits(0)
             ELSE hpc' = "set-event" /\ hExit' = hExit
    /\ UNCHANGED <<driverVars, payload, env, agentVars, clockVars, rItem, rOut, rDone>>

\* buildkite-agent meta-data set webhook:event
SetEvent ==
    /\ hpc = "set-event"
    /\ \E ok \in BOOLEAN :
          /\ calls' = Append(calls, Call("meta-data set webhook:event", ok))
          /\ IF ~ok THEN HandlerExits(1)
             ELSE hpc' = "set-source" /\ hExit' = hExit
    /\ UNCHANGED <<driverVars, payload, env, agentVars, clockVars, rItem, rOut, rDone>>

\* faulty variant of LabelDiffers: every label triggers the review
LabelDiffersNever(labelName, trigger) == FALSE

\* labelName !== process.env.TRIGGER_ON_LABEL
LabelDiffers(labelName, trigger) == labelName # trigger

\* buildkite-agent meta-data set webhook:source, the reading of the payload,
\* the comparison of the label and createOctokit
SetSource ==
    /\ hpc = "set-source"
    /\ \E ok \in BOOLEAN :
          /\ calls' = Append(calls, Call("meta-data set webhook:source", ok))
          /\ IF ~ok THEN HandlerExits(1)
             ELSE IF ~payload.hasLabel THEN HandlerExits(1)
             ELSE IF LabelDiffers(payload.label, env.TRIGGER_ON_LABEL)
             THEN HandlerExits(0)
             ELSE IF env.GITHUB_TOKEN = "" THEN HandlerExits(1)
             ELSE hpc' = "get-commit" /\ hExit' = hExit
    /\ UNCHANGED <<driverVars, payload, env, agentVars, clockVars, rItem, rOut, rDone>>

\* getPrHeadCommit: the pulls.get request fails, or returns a pull request
\* with or without a head commit
GetPrHeadCommit ==
    /\ hpc = "get-commit"
    /\ \E ok \in BOOLEAN, found \in BOOLEAN :
          /\ ok \/ ~found
          /\ calls' = Append(calls, [Call("pulls.get", ok) EXCEPT !.found = found])
          /\ IF ~ok THEN HandlerExits(1)
             ELSE IF ~found THEN HandlerExits(0)
             ELSE hpc' = "comment" /\ hExit' = hExit
    /\ UNCHANGED <<driverVars, payload, env, agentVars, clockVars, rItem, rOut, rDone>>

\* faulty variant of CommentSettled: a rejected request is not caught, main
\* rejects and the process exits with status 1
CommentRejectionEscapes(ok, log) ==
    /\ calls' = log
    /\ IF ok THEN hpc' = "upload" /\ hExit' = hExit ELSE HandlerExits(1)

\* the try/catch around the request: a rejected request is reported with
\* console.error and main continues with the upload; log is the call log
\* with the request
CommentSettled(ok, log) ==
    /\ hpc' = "upload"
    /\ hExit' = hExit
    /\ calls' = IF ok THEN log
                ELSE Append(log, Call("console.error Failed to post comment", TRUE))

\* issues.createComment inside try/catch
CreateComment ==
    /\ hpc = "comment"
    /\ \E ok \in BOOLEAN :
          CommentSettled(ok, Append(calls, Call("issues.createComment", ok)))
    /\ UNCHANGED <<driverVars, payload, env, agentVars, clockVars, rItem, rOut, rDone>>

\* webhookPullRequestUrl, for the repository and pull request of the payload
WebhookPullRequestUrl == Chars("https://github.com/o/r/pull/7")

\* tokenArgs of generateCodeReviewPipeline
TokenArgs(webhookPullRequestUrl, agentBuildUrl) ==
    <<Chars("PullRequestURL=") \o webhookPullRequestUrl,
      Chars("AgentBuildURL=") \o agentBuildUrl>>

\* runAgent: the commands of the agent step
RunAgent(tokenArgs, provider) ==
    IF provider = "anthropic"
    THEN <<Chars("./scripts/claude.sh prompts/user.md ") \o Join(tokenArgs, <<" ">>)>>
    ELSE <<Chars("echo '--- :no_entry_sign: Missing or unsupported MODEL_PROVIDER'"),
           Chars("echo 'Use the MODEL_PROVIDER environment variable to set one.'"),
           Chars("exit 1")>>

\* generateCodeReviewPipeline: the commands of the one step of the pipeline
GenerateCodeReviewPipeline(webhookPullRequestUrl, agentBuildUrl, provider) ==
    RunAgent(TokenArgs(webhookPullRequestUrl, agentBuildUrl), provider)

\* generateCodeReviewPipeline and buildkite-agent pipeline upload; main
\* returns and the process ends
PipelineUpload ==
    /\ hpc = "upload"
    /\ \E ok \in BOOLEAN :
          /\ calls' = Append(calls, Call("pipeline upload", ok))
          /\ HandlerExits(IF ok THEN 0 ELSE 1)
          /\ step' = IF ok
                     THEN GenerateCodeReviewPipeline(WebhookPullRequestUrl,
                                                     Chars(env.BUILDKITE_BUILD_URL),
                                                     env.MODEL_PROVIDER)
                     ELSE <<>>
    /\ UNCHANGED <<driverVars, payload, env, prompt, clockVars, rItem, rOut, rDone>>

(***************************************************************************)
(* The agent step (scripts/claude.sh), run by the shell with the command   *)
(* of the uploaded step.                                                   *)
(***************************************************************************)
\* the words the shell splits an unquoted command into
Words(command) ==
    LET starts == { i \in 1..Len(command) :
                      command[i] # " " /\ (i = 1 \/ command[i - 1] = " ") }
        EndOf(i) == CHOOSE j \in i..Len(command) :
                        /\ \A k \in i..j : command[k] # " "
                        /\ j = Len(command) \/ command[j + 1] = " "
        Start(n) == CHOOSE i \in starts : Cardinality({ j \in starts : j < i }) = n - 1
    IN  [n \in 1..Cardinality(starts) |-> SubSeq(command, Start(n), EndOf(Start(n)))]

\* [A-Za-z0-9_]
KeyChars ==
    LET c == Chars("ABCDEFGHIJKLMNOPQRSTUVWXYZabcdefghijklmnopqrstuvwxyz0123456789_")
    IN  { c[i] : i \in 1..Len(c) }

\* where the = of ^([A-Za-z0-9_]+)=(.*)$ matches in arg, 0 when arg does not match
EqualsAt(arg) ==
    IF \E i \in 2..Len(arg) : arg[i] = "=" /\ \A j \in 1..(i - 1) : arg[j] \in KeyChars
    THEN CHOOSE i \in 2..Len(arg) :
             arg[i] = "=" /\ \A j \in 1..(i - 1) : arg[j] \in KeyChars
    ELSE 0

\* the pattern \{\{.$key\}\}
Placeholder(key) == Chars("{{.") \o key \o Chars("}}")

\* ${text//pattern/value}: every occurrence of pattern replaced, left to right
RECURSIVE ReplaceAll(_, _, _)
ReplaceAll(text, pattern, value) ==
    LET matches == { i \in 1..(Len(text) - Len(pattern) + 1) :
                       SubSeq(text, i, i + Len(pattern) - 1) = pattern }
    IN  IF matches = {} THEN text
        ELSE LET first == CHOOSE i \in matches : \A j \in matches : i <= j
             IN  SubSeq(text, 1, first - 1) \o value
                 \o ReplaceAll(SubSeq(text, first + Len(pattern), Len(text)),
                               pattern, value)

\* the token replacement loop over "$@"
RECURSIVE ReplaceTokens(_, _)
ReplaceTokens(prompt_content, arguments) ==
    IF arguments = <<>> THEN prompt_content
    ELSE LET arg == Head(arguments)
             e == EqualsAt(arg)
         IN  IF e > 0
             THEN ReplaceTokens(ReplaceAll(prompt_content,
                                           Placeholder(SubSeq(arg, 1, e - 1)),
                                           SubSeq(arg, e + 1, Len(arg))),
                                Tail(arguments))
             ELSE ReplaceTokens(prompt_content, Tail(arguments))

\* prompts/user.md: the lines that name the inputs
UserPrompt ==
    Chars("- The pull request - {{.PullRequestURL}}") \o <<NL>>
    \o Chars("- The Buildkite build - {{.BuildURL}}")

\* the file at the path given as first argument
PromptFile(path) == IF path = Chars("prompts/user.md") THEN UserPrompt ELSE <<>>

\* claude.sh run with the command of the step: the prompt after the token
\* replacements is piped to the agent
ClaudeSh ==
    /\ step # <<>>
    /\ prompt = <<>>
    /\ LET words == Words(step[1])
       IN  /\ words[1] = Chars("./scripts/claude.sh")
           /\ Len(words) >= 2
           /\ PromptFile(words[2]) # <<>>
           /\ prompt' = ReplaceTokens(PromptFile(words[2]), SubSeq(words, 3, Len(words)))
    /\ UNCHANGED <<driverVars, hpc, payload, env, calls, hExit, step, clockVars, rItem,
                   rOut, rDone>>

NextHandler ==
    \/ GetPayload
    \/ SetEvent
    \/ SetSource
    \/ GetPrHeadCommit
    \/ CreateComment
    \/ PipelineUpload
    \/ ClaudeSh

SpecHandler == InitHandler /\ [][NextHandler]_vars

(***************************************************************************)
(* formatRelativeTime, applied to one elapsed time.                        *)
(***************************************************************************)
\* s.padStart(2, "0")
PadStart(s) == IF Len(s) >= 2 THEN s ELSE Rep("0", 2 - Len(s)) \o s

\* faulty variant of Minutes: the hours are not taken out
MinutesOfTotal(totalSeconds) == totalSeconds \div 60

\* minutes
Minutes(totalSeconds) == (totalSeconds % 3600) \div 60

FormatRelativeTime(ms) ==
    LET totalSeconds == ms \div 1000
        hours == totalSeconds \div 3600
        minutes == Minutes(totalSeconds)
        seconds == totalSeconds % 60
    IN  IF hours > 0
        THEN PadStart(ToStr(hours)) \o <<":">> \o PadStart(ToStr(minutes)) \o <<":">>
             \o PadStart(ToStr(seconds))
        ELSE PadStart(ToStr(minutes)) \o <<":">> \o PadStart(ToStr(seconds))

\* the elapsed times formatted: around the start, one second, one minute,
\* one hour, ten hours and a hundred hours, and in between
ElapsedTimes ==
    { b + d : b \in { 0, 1000, 59000, 60000, 61000, 600000, 3599000, 3600000,
                      3661000, 7199000, 35999000, 36000000, 359999000, 360000000 },
              d \in (0 - MaxSkew)..MaxSkew } \cap Nat

InitTime ==
    /\ elapsed \in ElapsedTimes
    /\ stamp = <<>>
    /\ hpc = "off"
    /\ payload = [text |-> "", action |-> "", hasLabel |-> FALSE, label |-> ""]
    /\ env = [TRIGGER_ON_LABEL |-> "", GITHUB_TOKEN |-> "", MODEL_PROVIDER |-> "",
              BUILDKITE_BUILD_URL |-> ""]
    /\ calls = <<>>
    /\ hExit = -1
    /\ step = <<>>
    /\ prompt = <<>>
    /\ pc = "off"
    /\ isStreaming = FALSE
    /\ outputFile = <<>>
    /\ staticLineNum = 0
    /\ lines = <<>>
    /\ source = {}
    /\ input = <<>>
    /\ ordinals = <<>>
    /\ closed = FALSE
    /\ trace = <<>>
    /\ inflight = {}
    /\ file = <<>>
    /\ exitCode = -1
    /\ failed = ""
    /\ args = <<>>
    /\ report = <<>>
    /\ rItem = TextItem(<<>>)
    /\ rOut = <<>>
    /\ rDone = FALSE

\* formatRelativeTime(elapsed)
FormatTime ==
    /\ stamp = <<>>
    /\ stamp' = FormatRelativeTime(elapsed)
    /\ UNCHANGED <<driverVars, handlerVars, elapsed, rItem, rOut, rDone>>

NextTime == FormatTime

SpecTime == InitTime /\ [][NextTime]_vars

(***************************************************************************)
(* Vocabulary of the properties.                                           *)
(***************************************************************************)
\* the line has a character that is not whitespace
NonBlank(line) == \E i \in 1..Len(line) : line[i] # " " /\ line[i] # "\t"

\* number of non-blank lines among the first i delivered
NonBlankUpTo(i) == Cardinality({ j \in 1..i : NonBlank(input[j]) })

\* the line decodes, and the decoded type is one of the three known kinds
KnownKind(line) ==
    LET t == Trim(line)
    IN  /\ CanDecode(t)
        /\ Decode(t).hasType
        /\ Decode(t).type \in {TypeSystem, TypeAssistant, TypeUser}

\* the line decodes, and the decoded type is a string other than the known kinds
UnknownKind(line) ==
    LET t == Trim(line)
    IN  /\ CanDecode(t)
        /\ Decode(t).hasType
        /\ Decode(t).type \notin {TypeSystem, TypeAssistant, TypeUser}

\* the event has no message, or a message with its content array: what the
\* renderers can read without raising an error
WellFormed(msg) == msg.hasMessage => msg.hasContent

\* the text of every tool-result item of a user-role event is a string
TextsAreStrings(msg) ==
    msg.type = TypeUser =>
        \A m \in 1..Len(msg.content) :
            msg.content[m].type = "tool_result" => msg.content[m].text # ObjectValue

\* the annotation renderer reads the event without raising an error
Renderable(msg) == WellFormed(msg) /\ TextsAreStrings(msg)

\* positions of the trace holding an event of kind ev for ordinal n
Events(ev, n) == { k \in 1..Len(trace) : trace[k].ev = ev /\ trace[k].n = n }

\* positions of the trace holding events of entries (not the fatal error report)
EntryEvents == { k \in 1..Len(trace) : trace[k].ev # "error" }

\* order of the events of one entry
Rank(ev) ==
    IF ev = "console" THEN 1 ELSE IF ev = "annotate" THEN 2
    ELSE IF ev = "returned" THEN 3 ELSE 4

(***************************************************************************)
(* C1: the k-th non-blank line delivered is assigned ordinal k; a blank or *)
(* whitespace-only line is assigned none and leaves the counter unchanged. *)
(***************************************************************************)
C1_OrdinalsCountNonBlankLines ==
    /\ Len(ordinals) = Len(input)
    /\ staticLineNum = NonBlankUpTo(Len(input))
    /\ \A i \in 1..Len(input) :
          ordinals[i] = IF NonBlank(input[i]) THEN NonBlankUpTo(i) ELSE 0

C1_Witness ==
    /\ Len(input) = 3
    /\ KnownKind(input[1]) /\ input[2] = <<" ">> /\ KnownKind(input[3])
    /\ ordinals = <<1, 0, 2>>

(***************************************************************************)
(* C2: entries are processed strictly in input order: the console block of *)
(* entry n precedes its annotate invocation, which has returned before any *)
(* console block or annotate invocation of a later entry; at most one      *)
(* annotate invocation is in flight.                                       *)
(***************************************************************************)
C2_StrictInputOrder ==
    /\ Cardinality(inflight) <= 1
    /\ \A i, j \in EntryEvents :
          i < j => /\ trace[i].n <= trace[j].n
                   /\ trace[i].n = trace[j].n => Rank(trace[i].ev) < Rank(trace[j].ev)
    /\ \A i, j \in EntryEvents :
          (/\ i < j
           /\ trace[i].ev = "annotate"
           /\ trace[j].ev \in {"console", "annotate"})
          => \E k \in EntryEvents :
                i < k /\ k < j /\ trace[k].ev = "returned" /\ trace[k].n = trace[i].n

C2_Witness ==
    /\ Cardinality(Events("console", 1)) = 1
    /\ Cardinality(Events("annotate", 1)) = 1
    /\ Cardinality(Events("returned", 1)) = 1
    /\ Cardinality(Events("console", 2)) = 1
    /\ Cardinality(Events("annotate", 2)) = 1
    /\ inflight = {Context(2)}

(***************************************************************************)
(* C3: a failure of the annotate command for an entry is caught and        *)
(* reported as a warning; it changes neither the ordinal counter nor the   *)
(* raw-line buffer nor the exit status, the process keeps running, and the *)
(* lines delivered afterwards get the console block and the annotate       *)
(* invocation they would get on their own.                                 *)
(***************************************************************************)
\* the step is a return of execSync with a failure
FailedReturnStep ==
    /\ Len(trace') > Len(trace)
    /\ trace'[Len(trace) + 1].ev = "returned"
    /\ ~trace'[Len(trace) + 1].ok

\* a failure has been recorded for some entry before ordinal n
FailedBefore(n) ==
    \E k \in 1..Len(trace) :
        trace[k].ev = "returned" /\ ~trace[k].ok /\ trace[k].n < n

C3_AnnotateFailureIsContained ==
    /\ [][FailedReturnStep =>
            /\ Len(trace') = Len(trace) + 2
            /\ trace'[Len(trace) + 2] = [ev |-> "warn", n |-> trace'[Len(trace) + 1].n]
            /\ staticLineNum' = staticLineNum
            /\ lines' = lines
            /\ file' = file
            /\ exitCode' = -1
            /\ pc' = "idle"]_vars
    /\ [](exitCode = 1 => trace[Len(trace)].ev = "error")
    /\ [](\A i \in 1..Len(input) :
            (ordinals[i] > 0 /\ FailedBefore(ordinals[i])) =>
                /\ (Events("console", ordinals[i]) # {})
                      <=> Prints(ParseLine(input[i], 0))
                /\ (Events("annotate", ordinals[i]) # {})
                      <=> CreateBuildkiteAnnotation(input[i], 0).emit)

C3_Witness ==
    /\ \E k \in Events("returned", 1) : ~trace[k].ok
    /\ Events("warn", 1) # {}
    /\ Events("console", 2) # {}
    /\ Events("annotate", 2) # {}
    /\ \E k \in Events("returned", 2) : trace[k].ok
    /\ exitCode = 0

(***************************************************************************)
(* C4: every line that decodes with type system, assistant or user has the *)
(* annotate command invoked for its ordinal, whatever its content items.   *)
(***************************************************************************)
C4_KnownKindsAreAnnotated ==
    \A i \in 1..Len(input) :
        KnownKind(input[i]) => Events("annotate", ordinals[i]) # {}

(***************************************************************************)
(* C5 as stated: every line that decodes with type system, assistant or    *)
(* user has a console block written for its ordinal.                       *)
(***************************************************************************)
C5_KnownKindsArePrinted ==
    \A i \in 1..Len(input) :
        KnownKind(input[i]) => Events("console", ordinals[i]) # {}

(***************************************************************************)
(* C5 amended: a line that decodes with a known type has a console block   *)
(* written for its ordinal exactly when its console-rendered body is not   *)
(* empty; the block carries the ordinal and the speaker of the role, or,   *)
(* when the event cannot be rendered, speaker SYSTEM and the line itself.  *)
(***************************************************************************)
C5_KnownKindsArePrintedIffBodyNonEmpty ==
    \A i \in 1..Len(input) :
        KnownKind(input[i]) =>
            LET msg == Decode(Trim(input[i]))
                r == FormatJSONMessage(msg)
                blocks == Events("console", ordinals[i])
            IN  /\ r.threw <=> ~WellFormed(msg)
                /\ WellFormed(msg) =>
                      /\ Cardinality(blocks) = IF r.content # <<>> THEN 1 ELSE 0
                      /\ \A k \in blocks :
                            /\ trace[k].speaker = ToUpperCase(msg.type)
                            /\ Join(trace[k].lines, <<NL>>) = r.content
                /\ ~WellFormed(msg) =>
                      /\ Cardinality(blocks) = 1
                      /\ \A k \in blocks :
                            /\ trace[k].speaker = SpeakerSystem
                            /\ Join(trace[k].lines, <<NL>>) = Trim(input[i])

C5_Witness ==
    \E i, j \in 1..Len(input) :
        /\ input[i] = LineOf("asstEmpty")
        /\ Events("console", ordinals[i]) = {}
        /\ input[j] = LineOf("asstText")
        /\ Events("console", ordinals[j]) # {}

(***************************************************************************)
(* C6: a line that decodes with a type string other than system, assistant *)
(* and user consumes an ordinal, has its console block written and never   *)
(* has the annotate command invoked for that ordinal.                      *)
(***************************************************************************)
C6_UnknownKindsArePrintedNotAnnotated ==
    \A i \in 1..Len(input) :
        UnknownKind(input[i]) =>
            /\ ordinals[i] > 0
            /\ Cardinality(Events("console", ordinals[i])) = 1
            /\ Events("annotate", ordinals[i]) = {}
            /\ Events("returned", ordinals[i]) = {}

C6_Witness ==
    /\ Len(input) = 2
    /\ UnknownKind(input[2])
    /\ ordinals[2] = 2
    /\ Events("console", 2) # {}
    /\ pc = "idle"

(***************************************************************************)
(* C7: the style of every annotate invocation is error for a user-role     *)
(* entry with the error flag, success for a user-role entry without it,    *)
(* warning for speaker SYSTEM (system events and plain-text lines) and     *)
(* info otherwise; it is always one of info, success, warning, error.      *)
(***************************************************************************)
\* the delivered line that was assigned ordinal n
LineWithOrdinal(n) == input[CHOOSE i \in 1..Len(input) : ordinals[i] = n]

C7_StyleFollowsRoleAndErrorFlag ==
    \A k \in 1..Len(trace) :
        trace[k].ev = "annotate" =>
            LET e == trace[k]
                line == LineWithOrdinal(e.n)
            IN  /\ e.style \in {"info", "success", "warning", "error"}
                /\ (e.speaker = SpeakerUser /\ e.hasError) => e.style = "error"
                /\ (e.speaker = SpeakerUser /\ ~e.hasError) => e.style = "success"
                /\ e.speaker = SpeakerSystem => e.style = "warning"
                /\ e.speaker \notin {SpeakerUser, SpeakerSystem} => e.style = "info"
                /\ ~StartsWithBrace(Trim(line)) => e.style = "warning"
                /\ (KnownKind(line) /\ ~Renderable(Decode(Trim(line)))) =>
                      e.style = "warning" /\ e.speaker = SpeakerSystem
                /\ (KnownKind(line) /\ Renderable(Decode(Trim(line)))) =>
                      LET msg == Decode(Trim(line))
                      IN  /\ msg.type = TypeSystem => e.style = "warning"
                          /\ msg.type = TypeAssistant => e.style = "info"
                          /\ msg.type = TypeUser =>
                                e.style = IF \E m \in 1..Len(msg.content) :
                                                /\ msg.content[m].type = "tool_result"
                                                /\ msg.content[m].is_error
                                          THEN "error" ELSE "success"

C7_Witness ==
    /\ \E k \in 1..Len(trace) : trace[k].ev = "annotate" /\ trace[k].style = "error"
    /\ \E k \in 1..Len(trace) : trace[k].ev = "annotate" /\ trace[k].style = "success"
    /\ \E k \in 1..Len(trace) : trace[k].ev = "annotate" /\ trace[k].style = "warning"

(***************************************************************************)
(* Vocabulary of the disclosure properties, read off the rendered content. *)
(***************************************************************************)
\* the rendered content holds a disclosure block
HasDisclosure(out) ==
    \E k \in 1..Len(out) : out[k] \in {DetailsInputOpen, DetailsResultOpen}

\* where the disclosure block opens
OpenAt(out) ==
    CHOOSE k \in 1..Len(out) : out[k] \in {DetailsInputOpen, DetailsResultOpen}

\* what is rendered between the first skip elements and the disclosure block
PreviewOf(out, skip) == SubSeq(out, skip + 1, OpenAt(out) - 1)

\* what the disclosure block holds
RemainderOf(out) == SubSeq(out, OpenAt(out) + 1, Len(out) - 1)

LineCount(text) == 1 + Cardinality({ k \in 1..Len(text) : text[k] = NL })

\* the text block of the rendered item: the tool input or the tool-result body
BlockText == IF rItem.type = "tool_use" THEN ToolInputPretty(rItem) ELSE ResultContent(rItem)

\* the block is displayed at all
BlockDisplayed ==
    IF rItem.type = "tool_use"
    THEN BlockText # <<>> /\ BlockText # EmptyObjectText
    ELSE BlockText # <<>>

\* what the renderer puts before the block
BlockLead ==
    IF rItem.type = "tool_use"
    THEN <<UsingTool>> \o rItem.name \o <<With>>
    ELSE <<ErrorIndicator(rItem), NL>>

BlockThreshold == IF rItem.type = "tool_use" THEN 300 ELSE 400

\* the first two lines of a text of more than two lines, and what follows them
SecondBreak(text) ==
    CHOOSE k \in 1..Len(text) :
        text[k] = NL /\ Cardinality({ j \in 1..(k - 1) : text[j] = NL }) = 1

(***************************************************************************)
(* C8 as stated: a single-line tool-result body of exactly 400 characters  *)
(* is rendered inline with no disclosure block; one of 401 characters is   *)
(* split into a preview of length exactly 400 and a remainder holding the  *)
(* 401st character.                                                        *)
(***************************************************************************)
C8_PreviewIs400Long ==
    (rDone /\ rItem.type = "tool_result" /\ LineCount(BlockText) = 1) =>
        /\ Len(BlockText) = 400 =>
              /\ ~HasDisclosure(rOut)
              /\ rOut = BlockLead \o BlockText
        /\ Len(BlockText) = 401 =>
              /\ HasDisclosure(rOut)
              /\ Len(PreviewOf(rOut, 2)) = 400
              /\ RemainderOf(rOut) = <<BlockText[401]>>

(***************************************************************************)
(* C8 amended: a single-line tool-result body of exactly 400 characters is *)
(* rendered inline with no disclosure block; one of 401 characters is      *)
(* split into a preview made of its first 400 characters followed by the   *)
(* three-character ellipsis "..." (length 403) and a remainder holding the *)
(* 401st character.                                                        *)
(***************************************************************************)
C8_PreviewIs400PlusEllipsis ==
    (rDone /\ rItem.type = "tool_result" /\ LineCount(BlockText) = 1) =>
        /\ Len(BlockText) = 400 =>
              /\ ~HasDisclosure(rOut)
              /\ rOut = BlockLead \o BlockText
        /\ Len(BlockText) = 401 =>
              /\ HasDisclosure(rOut)
              /\ PreviewOf(rOut, 2) = SubSeq(BlockText, 1, 400) \o <<".", ".", ".">>
              /\ Len(PreviewOf(rOut, 2)) = 403
              /\ RemainderOf(rOut) = <<BlockText[401]>>

C8_Witness ==
    /\ rDone
    /\ rItem.type = "tool_result"
    /\ rItem.text = Rep("x", 401)
    /\ HasDisclosure(rOut)
    /\ Len(rOut) = 2 + 403 + 1 + 1 + 1

(***************************************************************************)
(* C9 as stated: a displayed tool-input or tool-result block is rendered   *)
(* in full, inline, with no disclosure block if and only if it has at most *)
(* 2 lines and at most threshold characters (300 for inputs, 400 for       *)
(* results); in every other case the rendering is a preview (the first 2   *)
(* lines, else the first threshold characters) followed by a disclosure    *)
(* block that contains the remainder of the text.                          *)
(***************************************************************************)
\* the block fits: at most two lines and at most threshold characters
BlockFits == LineCount(BlockText) <= 2 /\ Len(BlockText) <= BlockThreshold

\* the rendering is a preview and a disclosure block holding the remainder
RenderedWithDisclosure ==
    /\ HasDisclosure(rOut)
    /\ SubSeq(rOut, 1, Len(BlockLead)) = BlockLead
    /\ rOut[Len(rOut)] = DetailsClose
    /\ RemainderOf(rOut) # <<>>
    /\ IF LineCount(BlockText) > 2
       THEN /\ PreviewOf(rOut, Len(BlockLead))
                 = SubSeq(BlockText, 1, SecondBreak(BlockText) - 1)
            /\ RemainderOf(rOut)
                 = SubSeq(BlockText, SecondBreak(BlockText) + 1, Len(BlockText))
       ELSE /\ SubSeq(PreviewOf(rOut, Len(BlockLead)), 1, BlockThreshold)
                 = SubSeq(BlockText, 1, BlockThreshold)
            /\ RemainderOf(rOut)
                 = SubSeq(BlockText, BlockThreshold + 1, Len(BlockText))

C9_DisclosureIffOverThreshold ==
    (rDone /\ BlockDisplayed) =>
        /\ BlockFits <=> (rOut = BlockLead \o BlockText)
        /\ ~BlockFits => RenderedWithDisclosure

(***************************************************************************)
(* C9 amended: a displayed block is rendered in full, inline, with no      *)
(* disclosure block if and only if it has at most 2 lines and at most      *)
(* threshold characters; in every other case the rendering is a preview    *)
(* followed by a disclosure block that contains the remainder of the text, *)
(* except that a text of exactly three lines whose third line is empty     *)
(* (nothing follows its second line break) is rendered as its first two    *)
(* lines alone, with no disclosure block.                                  *)
(***************************************************************************)
\* exactly three lines, the third one empty
EmptyThirdLine ==
    LineCount(BlockText) = 3 /\ BlockText[Len(BlockText)] = NL

C9_DisclosureUnlessRemainderEmpty ==
    (rDone /\ BlockDisplayed) =>
        /\ BlockFits <=> (rOut = BlockLead \o BlockText)
        /\ (~BlockFits /\ ~EmptyThirdLine) => RenderedWithDisclosure
        /\ (~BlockFits /\ EmptyThirdLine) =>
              /\ ~HasDisclosure(rOut)
              /\ rOut = BlockLead \o SubSeq(BlockText, 1, Len(BlockText) - 1)

C9_Witness ==
    /\ rDone
    /\ rItem.type = "tool_result"
    /\ rItem.text = <<"x", NL, "x", NL>>
    /\ ~HasDisclosure(rOut)
    /\ rOut = <<ToolResultMark, NL, "x", NL, "x">>

(***************************************************************************)
(* C10: in live mode with an output file, nothing is written to the file   *)
(* before the input source closes; when it closes exactly one write is     *)
(* made, whose content is every raw line delivered (blank ones included,   *)
(* untrimmed) in arrival order, joined by newlines, plus one trailing      *)
(* newline.                                                                *)
(***************************************************************************)
\* the delivered lines joined by newlines, with one trailing newline
DeliveredText ==
    IF input = <<>> THEN <<NL>>
    ELSE Concat([i \in 1..Len(input) |-> input[i] \o <<NL>>])

C10_OneWriteOfAllRawLinesAtClose ==
    /\ (isStreaming /\ outputFile # <<>>) =>
          /\ ~closed => file = <<>>
          /\ closed =>
                /\ Len(file) = 1
                /\ file[1].name = outputFile
                /\ file[1].data = DeliveredText
    /\ outputFile = <<>> => file = <<>>

C10_Witness ==
    /\ isStreaming
    /\ closed
    /\ input = << <<" ", "h", "i", " ">>, <<" ">>, LineOf("userOk") >>
    /\ Len(file) = 1
    /\ file[1].ok
    /\ exitCode = 0

(***************************************************************************)
(* Vocabulary of the command-line properties.                              *)
(***************************************************************************)
\* the command line names a file path as its source and carries -o <file>
FilePathWithOutputFlag ==
    args \in { <<InputFileName, DashO, OutputFileName>>,
               <<DashO, OutputFileName, InputFileName>> }

\* no line has been processed: nothing was delivered, numbered, printed,
\* annotated, buffered or written
NothingProcessed ==
    /\ input = <<>>
    /\ ordinals = <<>>
    /\ staticLineNum = 0
    /\ trace = <<>>
    /\ inflight = {}
    /\ lines = <<>>
    /\ file = <<>>

(***************************************************************************)
(* C11: when the source argument is a file path and -o <file> is given,    *)
(* the run is rejected at startup: the process exits with a non-zero       *)
(* status and no input line is ever processed (no ordinal assigned, no     *)
(* console entry, no annotate invocation, no output file written).         *)
(***************************************************************************)
C11_OutputFlagWithFilePathIsRejected ==
    FilePathWithOutputFlag =>
        /\ pc \in {"start", "exited"}
        /\ pc = "exited" => exitCode > 0
        /\ pc = "start" => exitCode = -1
        /\ NothingProcessed

C11_Witness ==
    /\ args = <<InputFileName, DashO, OutputFileName>>
    /\ pc = "exited"
    /\ exitCode = 1
    /\ report = <<ErrOnlyStreaming>>
    /\ NothingProcessed

(***************************************************************************)
(* C12: every invalid command line (no arguments, -o without a following   *)
(* filename, a second positional source, -o together with a file-path      *)
(* source) makes the process print the usage text and exit with a non-zero *)
(* status.                                                                 *)
(***************************************************************************)
\* the invalid command lines, one or two of each kind
InvalidCommandLine ==
    \/ args = <<>>
    \/ args \in { <<DashO>>, <<Dash, DashO>> }
    \/ args \in { <<InputFileName, Chars("in2")>>, <<Dash, InputFileName>> }
    \/ FilePathWithOutputFlag

C12_InvalidCommandLinesPrintUsage ==
    (pc # "start" /\ InvalidCommandLine) =>
        /\ pc = "exited"
        /\ exitCode > 0
        /\ \E k \in 1..Len(report) : report[k] = UsageText

(***************************************************************************)
(* C13: a non-blank line that, once trimmed, does not begin with "{", or   *)
(* begins with "{" but fails to decode, is plain text in both renderers:   *)
(* speaker SYSTEM, body equal to the trimmed line, not flagged as          *)
(* structured, annotation style warning; no error is raised and the lines  *)
(* delivered after it are processed.                                       *)
(***************************************************************************)
\* the line is not blank and is not decoded
PlainText(line) ==
    /\ NonBlank(line)
    /\ ~StartsWithBrace(Trim(line)) \/ ~CanDecode(Trim(line))

C13_UndecodedLinesArePlainText ==
    \A i \in 1..Len(input) :
        PlainText(input[i]) =>
            LET n == ordinals[i]
                shown == Events("console", n)
                sent == Events("annotate", n)
            IN  /\ n > 0
                /\ Cardinality(shown) = 1
                /\ \A k \in shown :
                      /\ trace[k].speaker = SpeakerSystem
                      /\ Join(trace[k].lines, <<NL>>) = Trim(input[i])
                      /\ ~trace[k].blankAfter
                /\ Cardinality(sent) = 1
                /\ \A k \in sent :
                      /\ trace[k].speaker = SpeakerSystem
                      /\ trace[k].content = Trim(input[i])
                      /\ trace[k].style = "warning"
                /\ \A k \in 1..Len(trace) :
                      trace[k].ev = "error" =>
                          \E j \in sent : j < k /\ Events("returned", n) # {}
                /\ \A j \in (i + 1)..Len(input) :
                      ordinals[j] > 0 =>
                          /\ ordinals[j] > n
                          /\ (Events("console", ordinals[j]) # {})
                                <=> Prints(ParseLine(input[j], 0))

C13_Witness ==
    /\ Len(input) = 3
    /\ input[1] = <<"{", "x">>
    /\ input[2] = <<" ", "h", "i", " ">>
    /\ KnownKind(input[3])
    /\ \E k \in Events("annotate", 1) :
          trace[k].style = "warning" /\ trace[k].content = <<"{", "x">>
    /\ \E k \in Events("console", 2) :
          trace[k].lines = << <<"h", "i">> >> /\ ~trace[k].blankAfter
    /\ Events("console", 3) # {}
    /\ exitCode = 0

(***************************************************************************)
(* C14: within one run the annotate command is invoked at most once per    *)
(* context key: the context is the prefix "chat-message-" followed by the  *)
(* decimal ordinal, distinct ordinals give distinct contexts, and an       *)
(* invocation that failed is never repeated.                               *)
(***************************************************************************)
\* the number a string of decimal digits denotes
RECURSIVE DecimalValue(_)
DecimalValue(digits) ==
    IF digits = <<>> THEN 0
    ELSE 10 * DecimalValue(SubSeq(digits, 1, Len(digits) - 1))
         + ((CHOOSE d \in 1..10 : DecimalDigits[d] = digits[Len(digits)]) - 1)

\* positions of the trace holding annotate invocations
Invocations == { k \in 1..Len(trace) : trace[k].ev = "annotate" }

C14_AtMostOneInvocationPerContext ==
    /\ \A j, k \in Invocations : trace[j].context = trace[k].context => j = k
    /\ \A k \in Invocations :
          LET c == trace[k].context
          IN  /\ Len(c) > 13
              /\ SubSeq(c, 1, 13)
                    = <<"c", "h", "a", "t", "-", "m", "e", "s", "s", "a", "g", "e", "-">>
              /\ \A i \in 14..Len(c) : \E d \in 1..10 : DecimalDigits[d] = c[i]
              /\ DecimalValue(SubSeq(c, 14, Len(c))) = trace[k].n
              /\ Cardinality(Events("annotate", trace[k].n)) = 1
              /\ Cardinality(Events("returned", trace[k].n)) <= 1
    /\ \A m \in 0..MaxContext :
          m # staticLineNum => Context(m) # Context(staticLineNum)

C14_Witness ==
    /\ \E k \in Events("returned", 1) : ~trace[k].ok
    /\ Cardinality(Events("annotate", 1)) = 1
    /\ \E k \in Events("annotate", 2) : trace[k].context = Chars("chat-message-2")
    /\ \E k \in Events("returned", 2) : trace[k].ok
    /\ closed

(***************************************************************************)
(* C15: whenever the input source raises an error or the write of the      *)
(* output file at stream end fails, the process reports the error and      *)
(* terminates with a non-zero exit status; what was rendered and annotated *)
(* before the failure is left as it is, and nothing is emitted afterwards. *)
(***************************************************************************)
\* the step makes a write of the output file that fails
WriteFailsStep ==
    /\ Len(file') = Len(file) + 1
    /\ ~file'[Len(file')].ok

C15_FatalErrorsExitNonZero ==
    /\ [][(failed' # failed \/ WriteFailsStep) =>
            /\ failed = ""
            /\ failed' \in {"read", "write"}
            /\ WriteFailsStep <=> failed' = "write"
            /\ trace' = Append(trace, FatalError)
            /\ exitCode' > 0
            /\ pc' = "exited"
            /\ staticLineNum' = staticLineNum
            /\ ordinals' = ordinals
            /\ inflight' = inflight]_vars
    /\ [][pc = "exited" => FALSE]_vars
    /\ [](failed # "" => (pc = "exited" /\ exitCode > 0 /\ trace[Len(trace)] = FatalError))

C15_Witness ==
    /\ failed = "write"
    /\ Events("console", 1) # {}
    /\ Events("annotate", 1) # {}
    /\ Events("returned", 1) # {}
    /\ Len(trace) = 4
    /\ trace[4] = FatalError
    /\ exitCode = 1
    /\ pc = "exited"

(***************************************************************************)
(* C16: the webhook handler invokes `buildkite-agent pipeline upload` only *)
(* if the webhook action is labeled, the label name equals                 *)
(* TRIGGER_ON_LABEL and the head commit of the pull request was obtained;  *)
(* in every other case it exits without uploading a pipeline; the webhook  *)
(* meta-data keys are set only for labeled events.                         *)
(***************************************************************************)
\* positions of the handler's calls of the named command or request
CallsOf(name) == { k \in 1..Len(calls) : calls[k].call = name }

\* the conditions under which the review is triggered
Triggered ==
    /\ payload.text # ""
    /\ payload.action = "labeled"
    /\ payload.hasLabel
    /\ payload.label = env.TRIGGER_ON_LABEL
    /\ \E k \in CallsOf("pulls.get") : calls[k].ok /\ calls[k].found

C16_UploadOnlyWhenTriggered ==
    /\ \A u \in CallsOf("pipeline upload") :
          /\ Triggered
          /\ \E k \in CallsOf("pulls.get") : k < u /\ calls[k].ok /\ calls[k].found
    /\ (hpc = "exited" /\ ~Triggered) =>
          /\ CallsOf("pipeline upload") = {}
          /\ hExit \in {0, 1}
    /\ (CallsOf("meta-data set webhook:event") # {}
          \/ CallsOf("meta-data set webhook:source") # {})
          => payload.action = "labeled"
    /\ Cardinality(CallsOf("pipeline upload")) <= 1

C16_Witness ==
    /\ hpc = "exited"
    /\ hExit = 0
    /\ payload = Payload("labeled", TRUE, "buildkite-review")
    /\ env.TRIGGER_ON_LABEL = "buildkite-review"
    /\ \E u \in CallsOf("pipeline upload") : calls[u].ok
    /\ CallsOf("meta-data set webhook:source") # {}

(***************************************************************************)
(* Vocabulary of the error-flag properties.                                *)
(***************************************************************************)
\* the line decodes to an event with a type
DecodesWithType(line) == CanDecode(Trim(line)) /\ Decode(Trim(line)).hasType

\* the event carries a tool-result content item with the error marker
CarriesToolError(msg) ==
    \E m \in 1..Len(msg.content) :
        msg.content[m].type = "tool_result" /\ msg.content[m].is_error

(***************************************************************************)
(* C17 as stated: the error flag computed for an event is true if and only *)
(* if at least one tool-result content item of the event carries the error *)
(* marker, for events of every role.                                       *)
(***************************************************************************)
C17_ErrorFlagForEveryRole ==
    \A k \in Invocations :
        LET line == LineWithOrdinal(trace[k].n)
        IN  DecodesWithType(line) =>
                (trace[k].hasError <=> CarriesToolError(Decode(Trim(line))))

(***************************************************************************)
(* C17 amended: the error flag computed for an event is true if and only   *)
(* if the event has the user role and at least one of its tool-result      *)
(* content items carries the error marker; for an event of any other role  *)
(* the flag is false whatever its content items carry, and it is false for *)
(* an event the renderer cannot read, which is annotated as plain text.     *)
(***************************************************************************)
C17_ErrorFlagForUserRole ==
    \A k \in Invocations :
        LET line == LineWithOrdinal(trace[k].n)
            rendered == DecodesWithType(line) /\ Renderable(Decode(Trim(line)))
        IN  /\ rendered =>
                  LET msg == Decode(Trim(line))
                  IN  trace[k].hasError
                         <=> (msg.type = TypeUser /\ CarriesToolError(msg))
            /\ ~rendered => ~trace[k].hasError

C17_Witness ==
    /\ Len(input) = 3
    /\ input[1] = LineOf("userTwo")
    /\ input[2] = LineOf("asstToolError")
    /\ input[3] = LineOf("userOk")
    /\ \E k \in Events("annotate", 1) : trace[k].hasError
    /\ \E k \in Events("annotate", 2) : ~trace[k].hasError
    /\ \E k \in Events("annotate", 3) : ~trace[k].hasError

(***************************************************************************)
(* C18: every line that decodes and whose type is not system, assistant or *)
(* user (another string, or absent) is classified as the unrecognized      *)
(* kind: its speaker is the uppercased type name and its body the marker   *)
(* "Unknown message type"; it is never classified as plain text and never  *)
(* annotated.                                                              *)
(***************************************************************************)
\* the line decodes to an event whose type is absent or not a known kind
Unrecognized(line) ==
    LET t == Trim(line)
    IN  /\ CanDecode(t)
        /\ ~Decode(t).hasType
             \/ Decode(t).type \notin {TypeSystem, TypeAssistant, TypeUser}

C18_UnrecognizedKindsAreNeverPlainText ==
    \A i \in 1..Len(input) :
        Unrecognized(input[i]) =>
            LET msg == Decode(Trim(input[i]))
                shown == Events("console", ordinals[i])
            IN  /\ Cardinality(shown) = 1
                /\ \A k \in shown :
                      /\ trace[k].lines
                            = << <<"U", "n", "k", "n", "o", "w", "n", " ", "m", "e", "s",
                                   "s", "a", "g", "e", " ", "t", "y", "p", "e">> >>
                      /\ msg.type = <<"r", "e", "s", "u", "l", "t">>
                            => trace[k].speaker = <<"R", "E", "S", "U", "L", "T">>
                      /\ Join(trace[k].lines, <<NL>>) # Trim(input[i])
                /\ Events("annotate", ordinals[i]) = {}

(***************************************************************************)
(* C19: on the console a blank separator line follows an entry if and only *)
(* if the entry came from a line that decoded successfully as structured   *)
(* data: every such entry is followed by one, and no plain-text entry (a   *)
(* line rendered with the plain-text fallback included) is.                *)
(***************************************************************************)
\* positions of the trace holding console blocks
Blocks == { k \in 1..Len(trace) : trace[k].ev = "console" }

\* the block shows its line as plain text: speaker SYSTEM, body the trimmed line
ShownAsPlainText(k) ==
    /\ trace[k].speaker = SpeakerSystem
    /\ Join(trace[k].lines, <<NL>>) = Trim(LineWithOrdinal(trace[k].n))

C19_BlankLineIffStructured ==
    \A k \in Blocks :
        /\ trace[k].blankAfter <=> CanDecode(Trim(LineWithOrdinal(trace[k].n)))
        /\ ShownAsPlainText(k) => ~trace[k].blankAfter

(***************************************************************************)
(* C20: for an elapsed time of e >= 0 milliseconds formatRelativeTime      *)
(* returns MM:SS when e is below one hour and HH:MM:SS when e is one hour  *)
(* or more; every field is zero-padded to two digits, the seconds field is *)
(* floor(e/1000) mod 60 and the minutes field floor(e/60000) mod 60, both  *)
(* in 00..59.                                                              *)
(***************************************************************************)
\* the string is made of decimal digits
IsNumeral(str) == \A i \in 1..Len(str) : \E d \in 1..10 : DecimalDigits[d] = str[i]

\* the string is a number zero-padded to two digits: two digits, or more
\* without a leading zero
PaddedToTwo(str) ==
    /\ IsNumeral(str)
    /\ Len(str) >= 2
    /\ Len(str) > 2 => str[1] # "0"

\* the last five characters are MM:SS for the elapsed time
EndsWithMinutesAndSeconds ==
    LET n == Len(stamp)
        mm == SubSeq(stamp, n - 4, n - 3)
        ss == SubSeq(stamp, n - 1, n)
    IN  /\ n >= 5
        /\ stamp[n - 2] = ":"
        /\ IsNumeral(mm) /\ IsNumeral(ss)
        /\ DecimalValue(ss) = (elapsed \div 1000) % 60
        /\ DecimalValue(mm) = (elapsed \div 60000) % 60
        /\ DecimalValue(ss) \in 0..59
        /\ DecimalValue(mm) \in 0..59

C20_StampIsMinutesSecondsWithHoursFromOneHour ==
    stamp # <<>> =>
        /\ EndsWithMinutesAndSeconds
        /\ elapsed < 3600000 => Len(stamp) = 5
        /\ elapsed >= 3600000 =>
              LET hh == SubSeq(stamp, 1, Len(stamp) - 6)
              IN  /\ Len(stamp) >= 8
                  /\ stamp[Len(stamp) - 5] = ":"
                  /\ PaddedToTwo(hh)
                  /\ DecimalValue(hh) = elapsed \div 3600000

C20_Witness ==
    /\ elapsed = 3661000
    /\ stamp = <<"0", "1", ":", "0", "1", ":", "0", "1">>

(***************************************************************************)
(* C21: the console path and the annotation path classify every non-blank  *)
(* line identically: the block printed and the annotation created for a    *)
(* line have the same speaker, one shows the line as plain text exactly    *)
(* when the other does, and nothing is printed (the rendered body is       *)
(* empty) exactly when the annotation body is empty.                       *)
(***************************************************************************)
\* the annotation shows its line as plain text: speaker SYSTEM, body the
\* trimmed line
AnnotatedAsPlainText(k) ==
    /\ trace[k].speaker = SpeakerSystem
    /\ trace[k].content = Trim(LineWithOrdinal(trace[k].n))

C21_PathsClassifyIdentically ==
    \A i \in 1..Len(input) :
        ordinals[i] > 0 =>
            LET printed == Events("console", ordinals[i])
                annotated == Events("annotate", ordinals[i])
            IN  /\ \A c \in printed : \A a \in annotated :
                      /\ trace[c].speaker = trace[a].speaker
                      /\ ShownAsPlainText(c) <=> AnnotatedAsPlainText(a)
                /\ printed = {}
                      <=> (annotated # {} /\ \A a \in annotated : trace[a].content = <<>>)

PlaceholderAt(text, i) ==
    /\ i + 2 <= Len(text)
    /\ SubSeq(text, i, i + 2) = Chars("{{.")

\* the keys the command of the step passes to claude.sh
SuppliedKeys ==
    LET arguments == SubSeq(Words(step[1]), 3, Len(Words(step[1])))
    IN  { SubSeq(arguments[a], 1, EqualsAt(arguments[a])  - 1) :
              a \in { b \in 1..Len(arguments) : EqualsAt(arguments[b]) > 0 } }

C23_NoPlaceholderIsLeft ==
    prompt # <<>> =>
        /\ \A i \in 1..Len(prompt) : ~PlaceholderAt(prompt, i)
        /\ \A i \in 1..Len(UserPrompt) :
              PlaceholderAt(UserPrompt, i) =>
                  \E key \in SuppliedKeys :
                      SubSeq(UserPrompt, i, i + Len(key) + 4) = Placeholder(key)

====
